---- MODULE Spec2Model ----
(***************************************************************************)
(* Room lifecycle of wormhole-server: the RoomRegistry (src/game/          *)
(* room_registry.rs), the Room and its idle-deletion timer task            *)
(* (src/game/room.rs), the RoomDeletionHandler and its bounded channel     *)
(* (src/game/room_deletion_handler.rs) and the request tasks that reach    *)
(* the registry through the one Mutex (src/main.rs).                       *)
(***************************************************************************)
EXTENDS Integers, Sequences, FiniteSets, TLC

\* ------------------------------------------------------------------ bounds
\* Number of distinct values the id provider can return.
NumIds == 3
\* Number of timer tasks ever spawned (Room::new and re-scheduling together).
MaxTimers == 3
\* Capacity of the deletion channel; DEFAULT_DELETION_CHANNEL_BUFFER_SIZE is
\* 100 in room_deletion_handler.rs:12, scaled down so that the channel fills.
ChannelCapacity == 1
\* Number of concurrent request tasks that call into the registry.
NumTasks == 2
\* Number of timer tasks in the specification the liveness claims are
\* checked under.
LiveMaxTimers == 2
\* Capacity of the deletion channel in the specification the ordering claim
\* is checked under, where two requests can wait in the channel.
WideCapacity == 2

\* ------------------------------------------------------- program constants
MAX_CREATE_ROOM_ID_ATTEMPTS == 5

\* Option<T>: None, Some(x).
None == <<>>
Some(x) == <<x>>
Unwrap(o) == o[1]

\* RoomId(u128) values the provider can return: 0 (the BadIdProvider of the
\* tests), 1234 (the id of the lookup tests), 2468, ...
RoomIds == {1234 * i : i \in 0..(NumIds - 1)}

\* ProvideRoomId::provide_id: any value of the id space, with no knowledge of
\* the registry.
provide_id == RoomIds

\* Holders of the Mutex: a request task, the deletion handler, or nobody.
Tasks == 1..NumTasks
Handler == NumTasks + 1
Unlocked == 0

\* --------------------------------------------------------- text rendering
HexDigits ==
  <<"0", "1", "2", "3", "4", "5", "6", "7", "8", "9", "a", "b", "c", "d", "e", "f">>

\* 16^0 .. 16^7
Pow16 == <<1, 16, 256, 4096, 65536, 1048576, 16777216, 268435456>>

\* The k-th hexadecimal digit of v, k = 0 the least significant. The ids of
\* the model are below 16^8, so the 24 leading digits are zero.
Nibble(v, k) == IF k >= 8 THEN 0 ELSE (v \div Pow16[k + 1]) % 16

\* Position p (1..36) of the hyphenated form 8-4-4-4-12.
IsHyphen(p) == p \in {9, 14, 19, 24}
HyphensBefore(p) ==
  IF p < 9 THEN 0 ELSE IF p < 14 THEN 1 ELSE IF p < 19 THEN 2
  ELSE IF p < 24 THEN 3 ELSE 4

\* impl Display for RoomId: Uuid::from_u128(self.0).fmt(f), the lower-case
\* hyphenated form, most significant digit first.
Display(id) ==
  [p \in 1..36 |->
     IF IsHyphen(p) THEN "-"
     ELSE HexDigits[Nibble(id, 32 - (p - HyphensBefore(p))) + 1]]

\* ------------------------------------------------------------------ state
VARIABLES
  rooms,          \* RoomRegistry.rooms: HashMap<RoomId, Room>
  timers,         \* the tasks spawned by schedule_deletion, in spawn order
  chan,           \* the mpsc channel of deletion requests
  handler,        \* RoomDeletionHandler::watch: its position and room_id
  registry_mutex, \* holder of the Mutex<RoomRegistry>, or None
  task,           \* request tasks: position and the value the call returned
  returned        \* history: ids returned by successful create_room calls

vars == <<rooms, timers, chan, handler, registry_mutex, task, returned>>

NoRes == [op |-> "none", arg |-> None, ok |-> FALSE, val |-> None, drawn |-> <<>>]

\* ------------------------------------------------------------------- Room
\* Room::schedule_deletion spawns a task that sleeps, then sends the id.
\* Ghost fields: `sent` counts the sends the task has completed, `room` is the
\* index of the timer spawned by the Room::new that built the room the task
\* belongs to.
spawn(id, room) == [id |-> id, pc |-> "sleeping", sent |-> 0, room |-> room]

\* A JoinHandle::abort that would also undo a task that has completed.
abort_any(ts, h) == [ts EXCEPT ![h].pc = "aborted"]

\* JoinHandle::abort: a task that has not completed is cancelled at its
\* await point (the sleep, or the send it is suspended on); a completed task
\* is unaffected.
abort(ts, h) ==
  IF ts[h].pc \in {"sleeping", "sending"}
  THEN [ts EXCEPT ![h].pc = "aborted"]
  ELSE ts

\* A constructor that ignores the accepted id and stores the default id.
Room_new_default(id, h) ==
  [id |-> 0, deletion_handle |-> Some(h), players |-> {}, inst |-> h]

\* Room::new followed by its schedule_deletion: the handle of the new task,
\* which is task number h.
Room_new(id, h) ==
  [id |-> id, deletion_handle |-> Some(h), players |-> {}, inst |-> h]

\* Room::schedule_deletion on an existing room: the handle is overwritten;
\* dropping the previous JoinHandle detaches its task and does not stop it.
schedule_deletion(room, h) == [room EXCEPT !.deletion_handle = Some(h)]

\* Room::cancel_deletion, its effect on the tasks ...
cancel_deletion_tasks(room, ts) ==
  IF room.deletion_handle = None THEN ts
  ELSE abort(ts, Unwrap(room.deletion_handle))

\* ... and on the room.
cancel_deletion(room) == [room EXCEPT !.deletion_handle = None]

\* ----------------------------------------------------------- RoomRegistry
\* A registry that never finds a collision.
contains_key_never(rs, id) == FALSE

\* HashMap::contains_key
contains_key(rs, id) == id \in DOMAIN rs

\* An insert into a fresh map: the entries that were there are lost.
insert_alone(rs, id, room) == [k \in {id} |-> room]

insert(rs, id, room) ==
  [k \in DOMAIN rs \cup {id} |-> IF k = id THEN room ELSE rs[k]]

\* A lookup that ignores the key and returns a room of the map.
get_room_for_id_any(rs, id) ==
  IF DOMAIN rs = {} THEN None ELSE Some(rs[CHOOSE k \in DOMAIN rs : TRUE])

\* RoomRegistry::get_room_for_id
get_room_for_id(rs, id) == IF id \in DOMAIN rs THEN Some(rs[id]) ELSE None

\* A delete_room that empties the map (clear in place of remove).
delete_room_clear(rs, id) == <<>>

\* A delete_room that removes nothing.
delete_room_noop(rs, id) == rs

\* RoomRegistry::delete_room: self.rooms.remove(id)
delete_room(rs, id) == [k \in DOMAIN rs \ {id} |-> rs[k]]

\* The loop with its bound tested by > in place of >=.
RECURSIVE create_room_loop_gt(_, _, _)
create_room_loop_gt(rs, drawn, attempts) ==
  LET id == drawn[Len(drawn)] IN
  IF contains_key(rs, id)
  THEN IF attempts > MAX_CREATE_ROOM_ID_ATTEMPTS
       THEN {[ok |-> FALSE, id |-> 0,
              err |-> MAX_CREATE_ROOM_ID_ATTEMPTS, drawn |-> drawn]}
       ELSE UNION {create_room_loop_gt(rs, Append(drawn, n), attempts + 1) :
                     n \in provide_id}
  ELSE {[ok |-> TRUE, id |-> id, err |-> 0, drawn |-> drawn]}

\* The while loop of RoomRegistry::create_room, from the test of its
\* condition on: `drawn` are the ids drawn so far, the last one the current
\* candidate. The set of outcomes over all values the provider can return.
RECURSIVE create_room_loop(_, _, _)
create_room_loop(rs, drawn, attempts) ==
  LET id == drawn[Len(drawn)] IN
  IF contains_key(rs, id)
  THEN IF attempts >= MAX_CREATE_ROOM_ID_ATTEMPTS
       THEN {[ok |-> FALSE, id |-> 0,
              err |-> MAX_CREATE_ROOM_ID_ATTEMPTS, drawn |-> drawn]}
       ELSE UNION {create_room_loop(rs, Append(drawn, n), attempts + 1) :
                     n \in provide_id}
  ELSE {[ok |-> TRUE, id |-> id, err |-> 0, drawn |-> drawn]}

\* RoomRegistry::create_room up to the end of the loop.
create_room_id(rs) == UNION {create_room_loop(rs, <<n>>, 0) : n \in provide_id}

\* A create_room that builds the Room (and so arms its timer) before it
\* knows that the id is free.
create_room_arm_first(rs, ts, o) ==
  LET h == Len(ts) + 1 IN
  [rooms  |-> IF o.ok THEN insert(rs, o.id, Room_new(o.id, h)) ELSE rs,
   timers |-> Append(ts, spawn(o.drawn[Len(o.drawn)], h))]

\* RoomRegistry::create_room after the loop, for the outcome o of the loop:
\* Room::new (which spawns timer task h) and the insert, or the early return.
create_room(rs, ts, o) ==
  LET h == Len(ts) + 1 IN
  IF o.ok
  THEN [rooms  |-> insert(rs, o.id, Room_new(o.id, h)),
        timers |-> Append(ts, spawn(o.id, h))]
  ELSE [rooms |-> rs, timers |-> ts]

\* The orders in which HashMap::keys can iterate.
Orders(S) ==
  {s \in [1..Cardinality(S) -> S] : \A i, j \in DOMAIN s : i # j => s[i] # s[j]}

\* An enumeration that misses the last key of the iteration.
list_active_rooms_short(order) ==
  [i \in 1..(Len(order) - 1) |-> Display(order[i])]

\* RoomRegistry::list_active_rooms for one iteration order of the keys.
list_active_rooms(order) == [i \in DOMAIN order |-> Display(order[i])]

\* -------------------------------------------------------------------- Init
Init ==
  /\ rooms = <<>>
  /\ timers = <<>>
  /\ chan = <<>>
  /\ handler = [pc |-> "recv", room_id |-> None, from |-> None]
  /\ registry_mutex = Unlocked
  /\ task = [t \in Tasks |-> [pc |-> "idle", res |-> NoRes]]
  /\ returned = <<>>

\* ---------------------------------------------------------- request tasks
\* A lock() that does not wait for the Mutex to be free.
Lock_nowait(t) ==
  /\ task[t].pc = "idle"
  /\ registry_mutex' = t
  /\ task' = [task EXCEPT ![t].pc = "locked"]
  /\ UNCHANGED <<rooms, timers, chan, handler, returned>>

\* registry.lock().unwrap() at the head of a request handler.
Lock(t) ==
  /\ task[t].pc = "idle"
  /\ registry_mutex = Unlocked
  /\ registry_mutex' = t
  /\ task' = [task EXCEPT ![t].pc = "locked"]
  /\ UNCHANGED <<rooms, timers, chan, handler, returned>>

\* A request handler whose guard is leaked instead of dropped at its return.
Return_leak(t) ==
  /\ task[t].pc = "done"
  /\ task' = [task EXCEPT ![t] = [pc |-> "idle", res |-> NoRes]]
  /\ UNCHANGED <<rooms, timers, chan, handler, registry_mutex, returned>>

\* The guard goes out of scope when the request handler returns.
Return(t) ==
  /\ task[t].pc = "done"
  /\ registry_mutex' = Unlocked
  /\ task' = [task EXCEPT ![t] = [pc |-> "idle", res |-> NoRes]]
  /\ UNCHANGED <<rooms, timers, chan, handler, returned>>

Done(t, res) == task' = [task EXCEPT ![t] = [pc |-> "done", res |-> res]]

\* main.rs create_room -> RoomRegistry::create_room
CreateRoom(t) ==
  /\ task[t].pc = "locked"
  /\ Len(timers) < MaxTimers
  /\ \E o \in create_room_id(rooms) :
       /\ rooms' = create_room(rooms, timers, o).rooms
       /\ timers' = create_room(rooms, timers, o).timers
       /\ returned' = IF o.ok THEN Append(returned, o.id) ELSE returned
       /\ Done(t, [op |-> "create_room", arg |-> None, ok |-> o.ok,
                   val |-> IF o.ok THEN o.id ELSE o.err, drawn |-> o.drawn])
  /\ UNCHANGED <<chan, handler, registry_mutex>>

\* main.rs get_rooms -> RoomRegistry::list_active_rooms
ListActiveRooms(t) ==
  /\ task[t].pc = "locked"
  /\ \E order \in Orders(DOMAIN rooms) :
       Done(t, [op |-> "list_active_rooms", arg |-> None, ok |-> TRUE,
                val |-> list_active_rooms(order), drawn |-> <<>>])
  /\ UNCHANGED <<rooms, timers, chan, handler, registry_mutex, returned>>

\* RoomRegistry::get_room_for_id
GetRoomForId(t) ==
  /\ task[t].pc = "locked"
  /\ \E id \in RoomIds :
       Done(t, [op |-> "get_room_for_id", arg |-> id,
                ok |-> TRUE,
                val |-> get_room_for_id(rooms, id), drawn |-> <<>>])
  /\ UNCHANGED <<rooms, timers, chan, handler, registry_mutex, returned>>

\* RoomRegistry::delete_room called directly
DeleteRoom(t) ==
  /\ task[t].pc = "locked"
  /\ \E id \in RoomIds :
       /\ rooms' = delete_room(rooms, id)
       /\ Done(t, [op |-> "delete_room", arg |-> id, ok |-> TRUE,
                   val |-> None, drawn |-> <<>>])
  /\ UNCHANGED <<timers, chan, handler, registry_mutex, returned>>

\* A cancel_deletion that would also take the room's requests out of the
\* channel.
CancelDeletion_retract(t) ==
  /\ task[t].pc = "locked"
  /\ \E id \in DOMAIN rooms :
       /\ timers' = cancel_deletion_tasks(rooms[id], timers)
       /\ rooms' = [rooms EXCEPT ![id] = cancel_deletion(rooms[id])]
       /\ chan' = SelectSeq(chan, LAMBDA m : m.id # id)
       /\ Done(t, [op |-> "cancel_deletion", arg |-> id, ok |-> TRUE,
                   val |-> None, drawn |-> <<>>])
  /\ UNCHANGED <<handler, registry_mutex, returned>>

\* Room::cancel_deletion on a room of the registry
CancelDeletion(t) ==
  /\ task[t].pc = "locked"
  /\ \E id \in DOMAIN rooms :
       /\ timers' = cancel_deletion_tasks(rooms[id], timers)
       /\ rooms' = [rooms EXCEPT ![id] = cancel_deletion(rooms[id])]
       /\ Done(t, [op |-> "cancel_deletion", arg |-> id, ok |-> TRUE,
                   val |-> None, drawn |-> <<>>])
  /\ UNCHANGED <<chan, handler, registry_mutex, returned>>

\* Room::schedule_deletion on a room of the registry (re-arming)
ScheduleDeletion(t) ==
  /\ task[t].pc = "locked"
  /\ Len(timers) < MaxTimers
  /\ \E id \in DOMAIN rooms :
       LET h == Len(timers) + 1 IN
       /\ timers' = Append(timers, spawn(id, rooms[id].inst))
       /\ rooms' = [rooms EXCEPT ![id] = schedule_deletion(rooms[id], h)]
       /\ Done(t, [op |-> "schedule_deletion", arg |-> id, ok |-> TRUE,
                   val |-> None, drawn |-> <<>>])
  /\ UNCHANGED <<chan, handler, registry_mutex, returned>>

\* ------------------------------------------------------------ timer tasks
\* A timer task that would remove its room from the registry itself when its
\* sleep is over, instead of sending a request.
Elapse_delete(i) ==
  /\ i \in DOMAIN timers
  /\ timers[i].pc = "sleeping"
  /\ timers' = [timers EXCEPT ![i].pc = "done"]
  /\ rooms' = delete_room(rooms, timers[i].id)
  /\ UNCHANGED <<chan, handler, registry_mutex, task, returned>>

\* time::sleep(30 s) completes.
Elapse(i) ==
  /\ i \in DOMAIN timers
  /\ timers[i].pc = "sleeping"
  /\ timers' = [timers EXCEPT ![i].pc = "sending"]
  /\ UNCHANGED <<rooms, chan, handler, registry_mutex, task, returned>>

\* A send that gives up when the channel is full (try_send).
Send_try(i) ==
  /\ i \in DOMAIN timers
  /\ timers[i].pc = "sending"
  /\ IF Len(chan) < ChannelCapacity
     THEN /\ chan' = Append(chan, [id |-> timers[i].id, timer |-> i])
          /\ timers' = [timers EXCEPT ![i].pc = "done", ![i].sent = @ + 1]
     ELSE /\ chan' = chan
          /\ timers' = [timers EXCEPT ![i].pc = "done"]
  /\ UNCHANGED <<rooms, handler, registry_mutex, task, returned>>

\* deletion_channel.send(id).await: completes when the channel has a free
\* slot, stays suspended while it is full. `timer` is a ghost tag.
Send(i) ==
  /\ i \in DOMAIN timers
  /\ timers[i].pc = "sending"
  /\ Len(chan) < ChannelCapacity
  /\ chan' = Append(chan, [id |-> timers[i].id, timer |-> i])
  /\ timers' = [timers EXCEPT ![i].pc = "done", ![i].sent = @ + 1]
  /\ UNCHANGED <<rooms, handler, registry_mutex, task, returned>>

\* ----------------------------------------------------- RoomDeletionHandler
\* A receive that takes the request enqueued last.
Recv_last ==
  /\ handler.pc = "recv"
  /\ chan # <<>>
  /\ handler' = [pc |-> "lock", room_id |-> Some(chan[Len(chan)].id),
                  from |-> Some(chan[Len(chan)].timer)]
  /\ chan' = SubSeq(chan, 1, Len(chan) - 1)
  /\ UNCHANGED <<rooms, timers, registry_mutex, task, returned>>

\* self.receiver.recv().await yields Some(room_id)
Recv ==
  /\ handler.pc = "recv"
  /\ chan # <<>>
  /\ handler' = [pc |-> "lock", room_id |-> Some(Head(chan).id),
                  from |-> Some(Head(chan).timer)]
  /\ chan' = Tail(chan)
  /\ UNCHANGED <<rooms, timers, registry_mutex, task, returned>>

\* self.registry_mutex.lock().unwrap()
HandlerLock ==
  /\ handler.pc = "lock"
  /\ registry_mutex = Unlocked
  /\ registry_mutex' = Handler
  /\ handler' = [handler EXCEPT !.pc = "delete"]
  /\ UNCHANGED <<rooms, timers, chan, task, returned>>

\* A watch that handles one request and returns (if let in place of
\* while let).
HandlerDelete_once ==
  /\ handler.pc = "delete"
  /\ rooms' = delete_room(rooms, Unwrap(handler.room_id))
  /\ registry_mutex' = Unlocked
  /\ handler' = [pc |-> "returned", room_id |-> None, from |-> None]
  /\ UNCHANGED <<timers, chan, task, returned>>

\* A watch loop whose guard outlives the loop body.
HandlerDelete_keep ==
  /\ handler.pc = "delete"
  /\ rooms' = delete_room(rooms, Unwrap(handler.room_id))
  /\ handler' = [pc |-> "recv", room_id |-> None, from |-> None]
  /\ UNCHANGED <<registry_mutex, timers, chan, task, returned>>

\* registry.delete_room(room_id); the guard is dropped at the end of the
\* loop body.
HandlerDelete ==
  /\ handler.pc = "delete"
  /\ rooms' = delete_room(rooms, Unwrap(handler.room_id))
  /\ registry_mutex' = Unlocked
  /\ handler' = [pc |-> "recv", room_id |-> None, from |-> None]
  /\ UNCHANGED <<timers, chan, task, returned>>

\* The registry call a request task makes while it holds the lock.
TaskOp(t) ==
  \/ GetRoomForId(t)
  \/ ListActiveRooms(t)
  \/ CreateRoom(t)
  \/ DeleteRoom(t)
  \/ CancelDeletion(t)
  \/ ScheduleDeletion(t)

Next ==
  \/ \E t \in Tasks : Lock(t)
  \/ \E t \in Tasks : TaskOp(t)
  \/ \E t \in Tasks : Return(t)
  \/ \E i \in 1..MaxTimers : Elapse(i)
  \/ \E i \in 1..MaxTimers : Send(i)
  \/ Recv
  \/ HandlerLock
  \/ HandlerDelete

Spec == Init /\ [][Next]_vars

\* The same system with at most LiveMaxTimers timer tasks, and the
\* scheduling the runtime provides: it keeps polling every spawned task and
\* the watch loop, so a sleep that is over and a send with a free slot
\* complete, a received request is handled, and a request task that holds the
\* lock runs to its return. The handler competes with the request tasks for
\* the Mutex and gets it if it is free again and again.
LiveBound == Len(timers) <= LiveMaxTimers

LiveTaskOp(t) == TaskOp(t) /\ LiveBound'

LiveNext ==
  \/ \E t \in Tasks : Lock(t)
  \/ \E t \in Tasks : LiveTaskOp(t)
  \/ \E t \in Tasks : Return(t)
  \/ \E i \in 1..MaxTimers : Elapse(i)
  \/ \E i \in 1..MaxTimers : Send(i)
  \/ Recv
  \/ HandlerLock
  \/ HandlerDelete

\* One step of timer task i; of the watch loop outside its wait for the
\* Mutex; of the request task that holds the Mutex.
TimerStep(i) == Elapse(i) \/ Send(i)
WatchStep == Recv \/ HandlerDelete
HolderStep == \E t \in Tasks : LiveTaskOp(t) \/ Return(t)

Fairness ==
  /\ \A i \in 1..LiveMaxTimers : WF_vars(TimerStep(i))
  /\ WF_vars(WatchStep)
  /\ SF_vars(HandlerLock)
  /\ WF_vars(HolderStep)

LiveSpec == Init /\ [][LiveNext]_vars /\ Fairness

\* The same system with a channel of WideCapacity slots.
SendWide(i) ==
  /\ i \in DOMAIN timers
  /\ timers[i].pc = "sending"
  /\ Len(chan) < WideCapacity
  /\ chan' = Append(chan, [id |-> timers[i].id, timer |-> i])
  /\ timers' = [timers EXCEPT ![i].pc = "done", ![i].sent = @ + 1]
  /\ UNCHANGED <<rooms, handler, registry_mutex, task, returned>>

WideNext ==
  \/ \E t \in Tasks : Lock(t)
  \/ \E t \in Tasks : TaskOp(t)
  \/ \E t \in Tasks : Return(t)
  \/ \E i \in 1..MaxTimers : Elapse(i)
  \/ \E i \in 1..MaxTimers : SendWide(i)
  \/ Recv
  \/ HandlerLock
  \/ HandlerDelete

WideSpec == Init /\ [][WideNext]_vars

\* A step in which request task t runs the registry operation op.
Call(t, op) ==
  /\ task[t].pc = "locked"
  /\ task'[t].pc = "done"
  /\ task'[t].res.op = op

\* Request task t holds the value returned by operation op.
Returned(t, op) == task[t].pc = "done" /\ task[t].res.op = op

Range(s) == {s[i] : i \in DOMAIN s}

\* C1: create_room draws a first candidate and redraws only while the
\* candidate is a key, at most 5 times (6 draws); it returns Ok with the first
\* drawn id that is not a key, and Err(UnableToCreateIdentifier(5)) exactly
\* when all 6 draws are keys.
C1_BoundedRetry ==
  [][\A t \in Tasks : Call(t, "create_room") =>
       LET r == task'[t].res
           d == r.drawn
           n == Len(d)
       IN /\ n >= 1 /\ n <= 6
          /\ \A i \in 1..(n - 1) : d[i] \in DOMAIN rooms
          /\ r.ok => d[n] \notin DOMAIN rooms /\ r.val = d[n]
          /\ ~r.ok <=> (n = 6 /\ \A i \in 1..6 : d[i] \in DOMAIN rooms)
          /\ ~r.ok => r.val = 5]_vars

\* A create_room call has failed after six colliding draws.
C1_Witness ==
  \E t \in Tasks :
    /\ Returned(t, "create_room")
    /\ ~task[t].res.ok
    /\ Len(task[t].res.drawn) = 6
    /\ Cardinality(Range(task[t].res.drawn)) = 2

\* C2: a create_room that returns UnableToCreateIdentifier leaves the mapping
\* as it was, spawns no timer task and puts nothing on the channel; with a
\* provider that always returns V, a call on a registry that holds V fails.
C2_FailureLeavesState ==
  [][\A t \in Tasks : Call(t, "create_room") =>
       LET r == task'[t].res IN
       /\ ~r.ok => UNCHANGED <<rooms, timers, chan, returned>>
       /\ \A V \in DOMAIN rooms : Range(r.drawn) = {V} => ~r.ok]_vars

\* The provider returned V on every draw: the first call created room V (the
\* room of timer 1), the second has failed and V is still the only room.
C2_Witness ==
  \E t \in Tasks : \E V \in RoomIds :
    /\ Returned(t, "create_room")
    /\ ~task[t].res.ok
    /\ Range(task[t].res.drawn) = {V}
    /\ returned = <<V>>
    /\ DOMAIN rooms = {V}
    /\ rooms[V].inst = 1

\* C3 as stated: the ids returned by the successful create_room calls are
\* pairwise distinct, and each is a key of the registry (read here at the
\* return of its call, the reading most favourable to the claim).
C3_Original ==
  /\ \A i, j \in DOMAIN returned : i # j => returned[i] # returned[j]
  /\ \A t \in Tasks : Returned(t, "create_room") /\ task[t].res.ok =>
        get_room_for_id(rooms, task[t].res.val) # None

\* C3 amended: a successful create_room returns an id that is not a key when
\* the call is made, so it differs from every id returned earlier whose room
\* is still in the registry, and the id is a key when the call returns.
C3_FreshAmongLive ==
  [][\A t \in Tasks : Call(t, "create_room") /\ task'[t].res.ok =>
       LET id == task'[t].res.val IN
       /\ returned' = Append(returned, id)
       /\ id \notin DOMAIN rooms
       /\ \A i \in DOMAIN returned :
            returned[i] \in DOMAIN rooms => returned[i] # id
       /\ get_room_for_id(rooms', id) # None
       /\ Unwrap(get_room_for_id(rooms', id)).id = id]_vars

\* A third successful call has returned the id of the first, whose room had
\* been removed.
C3_Witness ==
  \E t \in Tasks :
    /\ Returned(t, "create_room")
    /\ task[t].res.ok
    /\ Len(returned) = 3
    /\ returned[1] = returned[3]
    /\ returned[2] \in DOMAIN rooms

\* Position of timer task i, "unspawned" before its spawn.
TimerPc(i) == IF i \in DOMAIN timers THEN timers[i].pc ELSE "unspawned"

\* The requests of timer task i that are in the channel or with the handler.
InChannel(i) == {k \in DOMAIN chan : chan[k].timer = i}
WithHandler(i) == handler.from = Some(i)

\* The room built by the create_room call that spawned timer task h is in the
\* registry.
RoomPresent(h) == \E id \in DOMAIN rooms : rooms[id].inst = h

\* A timer task of the room of timer h was cancelled before it had sent.
RoomCancelled(h) ==
  \E i \in DOMAIN timers : timers[i].room = h /\ timers[i].pc = "aborted"

\* C4: the timer of a created room that is not cancelled sends, once its
\* window has elapsed, exactly one message and that message is the room's id
\* (never none, never two per arming); when the handler has processed the
\* message, get_room_for_id of that id returns none.
C4_IdleExpiry ==
  /\ [](\A i \in DOMAIN timers :
          /\ timers[i].sent <= 1
          /\ timers[i].pc = "done" <=> timers[i].sent = 1
          /\ Cardinality(InChannel(i)) <= timers[i].sent
          /\ \A k \in InChannel(i) : chan[k].id = timers[i].id
          /\ WithHandler(i) =>
               /\ InChannel(i) = {}
               /\ timers[i].sent = 1
               /\ handler.room_id = Some(timers[i].id)
          /\ \A id \in DOMAIN rooms :
               rooms[id].deletion_handle = Some(i) =>
                 timers[i].id = rooms[id].id /\ rooms[id].id = id)
  /\ [][handler.pc = "delete" /\ handler'.pc = "recv" =>
          get_room_for_id(rooms', Unwrap(handler.room_id)) = None]_vars
  /\ \A i \in 1..LiveMaxTimers :
       (TimerPc(i) = "sending") ~> (WithHandler(i) \/ TimerPc(i) = "aborted")

\* The handler has just processed the one message of the timer of a room
\* whose timer was never cancelled, and the room is gone.
C4_Witness ==
  /\ Len(timers) = 1
  /\ timers[1].pc = "done" /\ timers[1].sent = 1
  /\ chan = <<>>
  /\ handler.pc = "recv"
  /\ get_room_for_id(rooms, timers[1].id) = None
  /\ \A t \in Tasks : task[t].pc = "idle"
  /\ returned = <<timers[1].id>>

\* C5: under fair scheduling of the timer tasks and of the watch loop, every
\* room inserted by a successful create_room whose timer is never cancelled
\* is eventually absent from the registry.
C5_EventuallyAbsent ==
  \A h \in 1..LiveMaxTimers :
    RoomPresent(h) ~> (~RoomPresent(h) \/ RoomCancelled(h))

\* Two rooms have been created, no timer was cancelled, and both rooms have
\* left the registry through the handler.
C5_Witness ==
  /\ Len(returned) = 2
  /\ \A i \in DOMAIN timers : timers[i].pc = "done" /\ timers[i].room = i
  /\ rooms = <<>>
  /\ chan = <<>>
  /\ handler.pc = "recv"

\* The timer tasks of the room built by the call that spawned timer h.
TimersOf(h) == {i \in DOMAIN timers : timers[i].room = h}

\* The deletion of the room under id was cancelled before its window had
\* elapsed: the room was armed once, by Room::new, cancel_deletion has
\* cleared the handle, and the task was aborted in its sleep.
CancelledInTime(id) ==
  /\ id \in DOMAIN rooms
  /\ rooms[id].deletion_handle = None
  /\ TimersOf(rooms[id].inst) = {rooms[id].inst}
  /\ timers[rooms[id].inst].pc = "aborted"
  /\ timers[rooms[id].inst].sent = 0
  /\ InChannel(rooms[id].inst) = {}
  /\ ~WithHandler(rooms[id].inst)

\* C6: when cancel_deletion is called on a room before its idle window has
\* elapsed, no deletion request is ever sent for that arming, and the room
\* stays in the registry (as long as no caller removes it with delete_room).
C6_CancelKeepsRoom ==
  /\ [][\A id \in DOMAIN rooms : \A t \in Tasks :
          /\ Call(t, "cancel_deletion") /\ task'[t].res.arg = id
          /\ rooms[id].deletion_handle = Some(rooms[id].inst)
          /\ timers[rooms[id].inst].pc = "sleeping"
          => CancelledInTime(id)']_vars
  /\ [][\A id \in DOMAIN rooms :
          /\ CancelledInTime(id)
          /\ ~(\E t \in Tasks : Call(t, "delete_room") /\ task'[t].res.arg = id)
          /\ ~(\E t \in Tasks : Call(t, "schedule_deletion") /\ task'[t].res.arg = id)
          => CancelledInTime(id)']_vars

\* Timer task i has fired into a full channel and is suspended on its send.
Blocked(i) ==
  /\ TimerPc(i) = "sending"
  /\ Len(chan) = ChannelCapacity

\* C7 as stated: a timer that fires while the channel is full blocks on its
\* send, its request is not discarded, and the request is eventually
\* received by the handler.
C7_Original ==
  /\ [][\A i \in DOMAIN timers :
          Blocked(i) => timers'[i].pc \in {"sending", "done"}]_vars
  /\ \A i \in 1..LiveMaxTimers : Blocked(i) ~> WithHandler(i)

\* Request task t calls cancel_deletion on the room that holds the handle of
\* timer task i.
Cancels(t, i) ==
  /\ Call(t, "cancel_deletion")
  /\ task'[t].res.arg \in DOMAIN rooms
  /\ rooms[task'[t].res.arg].deletion_handle = Some(i)

\* C7 amended: a timer that fires while the channel is full stays suspended
\* on its send, and no step but a cancel_deletion that aborts the task
\* discards the request of a fired timer: the send completes only by putting
\* the request at the end of the channel, requests leave the channel only
\* from its head and into the handler, and the request of every fired timer
\* that is not aborted is eventually received by the handler.
C7_NoSilentDrop ==
  /\ [][\A i \in DOMAIN timers : timers[i].pc = "sending" =>
          \/ timers'[i] = timers[i]
          \/ /\ Len(chan) < ChannelCapacity
             /\ timers'[i].pc = "done"
             /\ chan' = Append(chan, [id |-> timers[i].id, timer |-> i])
          \/ /\ timers'[i].pc = "aborted"
             /\ \E t \in Tasks : Cancels(t, i)]_vars
  /\ [][chan' # chan =>
          \/ \E m \in {[id |-> timers[i].id, timer |-> i] : i \in DOMAIN timers} :
               chan' = Append(chan, m)
          \/ /\ chan # <<>>
             /\ chan' = Tail(chan)
             /\ handler'.room_id = Some(Head(chan).id)
             /\ handler'.from = Some(Head(chan).timer)]_vars
  /\ \A i \in 1..LiveMaxTimers :
       (TimerPc(i) = "sending") ~> (WithHandler(i) \/ TimerPc(i) = "aborted")

\* The channel is full of the requests of other rooms and a fired timer is
\* suspended on its send.
C7_Witness ==
  \E i \in DOMAIN timers :
    /\ Blocked(i)
    /\ \A k \in DOMAIN chan : chan[k].id # timers[i].id
    /\ handler.pc = "recv"

\* C8: delete_room on an id that is not a key does not fail and leaves the
\* mapping unchanged; deleting an existing id twice gives the mapping that
\* deleting it once gives; every entry under another id is left untouched.
C8_DeleteIdempotent ==
  /\ [](\A id \in RoomIds :
          LET once == delete_room(rooms, id) IN
          /\ id \notin DOMAIN rooms => once = rooms
          /\ delete_room(once, id) = once
          /\ DOMAIN once = DOMAIN rooms \ {id}
          /\ \A k \in DOMAIN rooms \ {id} : once[k] = rooms[k])
  /\ [][\A t \in Tasks : Call(t, "delete_room") =>
          /\ task'[t].res.ok
          /\ DOMAIN rooms' = DOMAIN rooms \ {task'[t].res.arg}
          /\ \A k \in DOMAIN rooms' : rooms'[k] = rooms[k]
          /\ task'[t].res.arg \notin DOMAIN rooms => rooms' = rooms]_vars
  /\ [][handler.pc = "delete" /\ handler'.pc = "recv" =>
          /\ DOMAIN rooms' = DOMAIN rooms \ {Unwrap(handler.room_id)}
          /\ \A k \in DOMAIN rooms' : rooms'[k] = rooms[k]]_vars

\* delete_room has returned from a call on an id that had been created and
\* was already removed, and the other rooms are still there.
C8_Witness ==
  \E t \in Tasks :
    /\ Returned(t, "delete_room")
    /\ task[t].res.arg \notin DOMAIN rooms
    /\ task[t].res.arg \in Range(returned)
    /\ Cardinality(DOMAIN rooms) = 2
    /\ \A i \in DOMAIN timers : timers[i].pc = "sleeping"

\* C9: get_room_for_id(id) returns the room whose id field is id when id is
\* a key, none when it is not (an id never inserted included), and changes
\* neither the registry nor any timer.
C9_Lookup ==
  [][\A t \in Tasks : Call(t, "get_room_for_id") =>
       LET id == task'[t].res.arg
           r  == task'[t].res.val
       IN /\ id \in DOMAIN rooms => r = Some(rooms[id]) /\ Unwrap(r).id = id
          /\ id \notin DOMAIN rooms => r = None
          /\ id \notin Range(returned) => r = None
          /\ UNCHANGED <<rooms, timers, chan, handler, returned>>]_vars

\* A lookup among two rooms has returned a room.
C9_Witness ==
  \E t \in Tasks :
    /\ Returned(t, "get_room_for_id")
    /\ task[t].res.val # None
    /\ Cardinality(DOMAIN rooms) = 2

\* The value of a hexadecimal digit, and the u128 a rendering denotes.
HexValue(c) == (CHOOSE k \in 1..16 : HexDigits[k] = c) - 1

RECURSIVE ParseHex(_)
ParseHex(ds) ==
  IF ds = <<>> THEN 0 ELSE 16 * ParseHex(SubSeq(ds, 1, Len(ds) - 1)) + HexValue(ds[Len(ds)])

ParseUuid(str) == ParseHex(SelectSeq(SubSeq(str, 25, 36), LAMBDA c : c # "-"))

\* C10: list_active_rooms returns the text renderings of the ids currently
\* keyed, each once, in any order; a rendering is the hyphenated 36-character
\* form and denotes one id only.
C10_Enumeration ==
  [][\A t \in Tasks : Call(t, "list_active_rooms") =>
       LET l == task'[t].res.val IN
       /\ Range(l) = {Display(k) : k \in DOMAIN rooms}
       /\ Len(l) = Cardinality(DOMAIN rooms)
       /\ \A i, j \in DOMAIN l : i # j => l[i] # l[j]
       /\ \A i \in DOMAIN l :
            /\ Len(l[i]) = 36
            /\ \A p \in 1..36 : l[i][p] = "-" <=> p \in {9, 14, 19, 24}
            /\ \A p \in 1..23 : l[i][p] \in {"-", "0"}
            /\ ParseUuid(l[i]) \in DOMAIN rooms
       /\ \A a, b \in RoomIds : a # b => Display(a) # Display(b)
       /\ UNCHANGED <<rooms, timers, chan, handler, returned>>]_vars

\* Rooms A, B and C were created and B removed: the enumeration has returned
\* the renderings of A and C.
C10_Witness ==
  \E t \in Tasks :
    /\ Returned(t, "list_active_rooms")
    /\ Len(returned) = 3
    /\ Cardinality(Range(returned)) = 3
    /\ DOMAIN rooms = {returned[1], returned[3]}
    /\ Range(task[t].res.val) = {Display(returned[1]), Display(returned[3])}
    /\ Len(task[t].res.val) = 2

\* The tasks that are between their lock() and the drop of the guard.
Holders ==
  {t \in Tasks : task[t].pc \in {"locked", "done"}}
    \cup (IF handler.pc = "delete" THEN {Handler} ELSE {})

\* C11: every registry operation (create_room, get_room_for_id,
\* list_active_rooms, delete_room, from a request task or from the deletion
\* handler) is a step of the task that holds the registry Mutex; at most one
\* task holds the Mutex at a time; and while a task holds it no other task
\* changes the table, so what a holder reads is the table before or after a
\* whole operation of another task.
C11_LockDiscipline ==
  /\ [](/\ Cardinality(Holders) <= 1
        /\ Holders = IF registry_mutex = Unlocked THEN {} ELSE {registry_mutex})
  /\ [][/\ \A t \in Tasks :
             (\E op \in {"create_room", "get_room_for_id", "list_active_rooms",
                         "delete_room"} : Call(t, op))
               => registry_mutex = t /\ registry_mutex' = t
        /\ handler.pc = "delete" /\ handler'.pc # "delete"
             => registry_mutex = Handler
        /\ rooms' # rooms =>
             \/ \E t \in Tasks : registry_mutex = t /\ task[t].pc = "locked"
                                   /\ task'[t].pc = "done"
             \/ registry_mutex = Handler /\ handler.pc = "delete"
        /\ \A h \in Holders :
             (h \in Tasks /\ task'[h] = task[h]) \/ (h = Handler /\ handler' = handler)
               => rooms' = rooms]_vars

\* A request task has created a room and still holds the Mutex while the
\* deletion handler, with a request in hand, waits for it.
C11_Witness ==
  /\ handler.pc = "lock"
  /\ \E t \in Tasks :
       /\ registry_mutex = t
       /\ Returned(t, "create_room")
       /\ task[t].res.ok
  /\ \E u \in Tasks : task[u].pc = "idle"

\* C12: in every reachable state every key of the mapping equals the id field
\* of the room stored under it, and no two entries have equal RoomId.
C12_KeysAreIds ==
  /\ \A k \in DOMAIN rooms : rooms[k].id = k
  /\ \A a, b \in DOMAIN rooms : a # b => rooms[a].id # rooms[b].id

\* The registry holds a room under every id of the id space.
C12_Witness ==
  /\ DOMAIN rooms = RoomIds
  /\ Len(returned) = NumIds
  /\ \A t \in Tasks : task[t].pc = "idle"

\* C13: a successful create_room adds exactly one entry, keyed by the
\* returned id, which was not a key, and spawns exactly one timer task, for
\* that id and held by the new room; every entry and every timer task that
\* existed before the call is unchanged, and nothing is sent.
C13_CreateFrame ==
  [][\A t \in Tasks : Call(t, "create_room") /\ task'[t].res.ok =>
       LET id == task'[t].res.val
           h  == Len(timers) + 1
       IN /\ id \notin DOMAIN rooms
          /\ DOMAIN rooms' = DOMAIN rooms \cup {id}
          /\ \A k \in DOMAIN rooms : rooms'[k] = rooms[k]
          /\ rooms'[id].id = id
          /\ rooms'[id].deletion_handle = Some(h)
          /\ Len(timers') = h
          /\ \A i \in DOMAIN timers : timers'[i] = timers[i]
          /\ timers'[h].id = id
          /\ timers'[h].pc = "sleeping"
          /\ timers'[h].sent = 0
          /\ {i \in DOMAIN timers' : timers'[i].room = h} = {h}
          /\ UNCHANGED <<chan, handler>>]_vars

\* A third room has been created next to two rooms, the timer of one of
\* which has fired and not yet sent.
C13_Witness ==
  \E t \in Tasks :
    /\ Returned(t, "create_room")
    /\ task[t].res.ok
    /\ Cardinality(DOMAIN rooms) = 3
    /\ Len(timers) = 3
    /\ timers[1].pc = "sending"
    /\ timers[3].id = task[t].res.val

\* States of timer instance i. It is armed from its spawn until its send has
\* completed or it is aborted; fired when its request has been sent and the
\* task is over.
Armed(i) == TimerPc(i) \in {"sleeping", "sending"}
Fired(i) == TimerPc(i) = "done"

\* C14: a room has at most one armed timer at any time, and a
\* schedule_deletion on a room whose handle refers to an armed timer leaves
\* that previous timer no longer armed (it is replaced, not stacked).
C14_OneLiveTimer ==
  /\ [](\A h \in DOMAIN timers :
          Cardinality({i \in TimersOf(h) : Armed(i)}) <= 1)
  /\ [][\A t \in Tasks : \A id \in DOMAIN rooms : \A i \in DOMAIN timers :
          /\ Call(t, "schedule_deletion") /\ task'[t].res.arg = id
          /\ rooms[id].deletion_handle = Some(i)
          /\ Armed(i)
          => ~Armed(i)']_vars

\* C15: a timer instance is armed by its spawn (Room::new or a re-schedule)
\* and from then on only sleeps, then sends; it leaves the armed state either
\* to fired, by completing one send of its room's id, or to cancelled, by a
\* cancel_deletion of the room that holds its handle, with nothing sent.
\* Fired and cancelled are terminal: an instance never does both, and it
\* never sends a second request.
C15_TimerLifecycle ==
  /\ [][\A i \in 1..MaxTimers :
          /\ TimerPc(i) = "unspawned" /\ TimerPc(i)' # "unspawned" =>
               /\ TimerPc(i)' = "sleeping"
               /\ timers'[i].sent = 0
               /\ \E t \in Tasks :
                    Call(t, "create_room") \/ Call(t, "schedule_deletion")
          /\ TimerPc(i) = "sending" => TimerPc(i)' # "sleeping"
          /\ Armed(i) /\ ~Armed(i)' =>
               \/ /\ timers[i].pc = "sending"
                  /\ Fired(i)'
                  /\ timers'[i].sent = 1
                  /\ chan' = Append(chan, [id |-> timers[i].id, timer |-> i])
               \/ /\ TimerPc(i)' = "aborted"
                  /\ timers'[i].sent = 0
                  /\ chan' = chan
                  /\ \E t \in Tasks : Cancels(t, i)
          /\ Fired(i) \/ TimerPc(i) = "aborted" => timers'[i] = timers[i]]_vars
  /\ [](\A i \in DOMAIN timers :
          /\ timers[i].sent <= 1
          /\ Fired(i) <=> timers[i].sent = 1
          /\ Cardinality(InChannel(i)) + (IF WithHandler(i) THEN 1 ELSE 0)
               <= timers[i].sent)

\* cancel_deletion has returned from a call on a room whose only timer had
\* already sent its request, and the timer of another room was cancelled in
\* time.
C15_Witness ==
  \E t \in Tasks :
    /\ Returned(t, "cancel_deletion")
    /\ task[t].res.arg \in DOMAIN rooms
    /\ LET h == rooms[task[t].res.arg].inst IN
       /\ TimersOf(h) = {h}
       /\ Fired(h)
       /\ timers[h].sent = 1
    /\ \E j \in DOMAIN timers : timers[j].pc = "aborted"

\* C16 as stated: a cancel_deletion on a room whose timer has fired, with its
\* request being sent or in the channel, retracts nothing: the timer task,
\* the channel and the handler are as before, and the handler receives the
\* request.
C16_Original ==
  /\ [][\A t \in Tasks : \A i \in DOMAIN timers :
          Cancels(t, i) /\ timers[i].pc \in {"sending", "done"} =>
            /\ timers'[i] = timers[i]
            /\ chan' = chan
            /\ handler' = handler]_vars
  /\ \A i \in 1..LiveMaxTimers :
       (TimerPc(i) = "sending" \/ InChannel(i) # {}) ~> WithHandler(i)

\* C16 amended: a cancel_deletion never takes a request out of the channel or
\* away from the handler; called after the timer's send has completed it
\* changes no timer task, and the enqueued request is received by the handler,
\* which takes the lock to remove that id. Called while the timer task is
\* still in its send, it aborts the task and the request is never enqueued.
C16_BestEffort ==
  /\ [][\A t \in Tasks : \A i \in DOMAIN timers : Cancels(t, i) =>
          /\ chan' = chan
          /\ handler' = handler
          /\ Fired(i) => timers' = timers
          /\ Armed(i) => /\ timers'[i].pc = "aborted"
                         /\ timers'[i].sent = 0]_vars
  /\ [][handler.pc = "delete" /\ handler'.pc # "delete" =>
          rooms' = delete_room(rooms, Unwrap(handler.room_id))]_vars
  /\ \A i \in 1..LiveMaxTimers :
       (InChannel(i) # {}) ~>
         (WithHandler(i) /\ handler.pc = "delete"
            /\ handler.room_id = Some(timers[i].id))

\* cancel_deletion has returned from a call on a room whose timer's request
\* is in the channel; the channel still holds it.
C16_Witness ==
  \E t \in Tasks :
    /\ Returned(t, "cancel_deletion")
    /\ task[t].res.arg \in DOMAIN rooms
    /\ rooms[task[t].res.arg].deletion_handle = None
    /\ LET h == rooms[task[t].res.arg].inst IN
       /\ Fired(h)
       /\ InChannel(h) # {}
       /\ chan[1].id = task[t].res.arg

\* C17: requests are enqueued at the end of the channel and leave it only
\* from its head, into the handler; a request enqueued after another never
\* reaches the handler before it and the two keep their order while both
\* wait; the handler takes a request only when it holds none, and removes the
\* id of the request it holds before it receives the next.
C17_Fifo ==
  /\ [][chan' # chan =>
          \/ \E i \in DOMAIN timers :
               /\ timers[i].pc = "sending" /\ timers'[i].pc = "done"
               /\ chan' = Append(chan, [id |-> timers[i].id, timer |-> i])
               /\ handler' = handler
          \/ /\ chan # <<>>
             /\ chan' = Tail(chan)
             /\ handler.pc = "recv" /\ handler.room_id = None
             /\ handler' = [pc |-> "lock", room_id |-> Some(Head(chan).id),
                             from |-> Some(Head(chan).timer)]
             /\ rooms' = rooms]_vars
  /\ [][\A k, l \in DOMAIN chan : k < l =>
          /\ handler'.from # Some(chan[l].timer)
          /\ \/ \E m, n \in DOMAIN chan' :
                  m < n /\ chan'[m] = chan[k] /\ chan'[n] = chan[l]
             \/ /\ handler'.from = Some(chan[k].timer)
                /\ \E n \in DOMAIN chan' : chan'[n] = chan[l]]_vars
  /\ [][handler.pc # "recv" /\ handler' # handler =>
          /\ handler'.room_id \in {handler.room_id, None}
          /\ handler'.room_id = None =>
               /\ handler.pc = "delete"
               /\ rooms' = delete_room(rooms, Unwrap(handler.room_id))]_vars
  /\ [](handler.pc = "recv" <=> handler.room_id = None)

\* The handler is about to remove the room of the request it received first
\* while the requests of two other rooms wait in the channel, all three rooms
\* still in the registry.
C17_Witness ==
  /\ handler.pc = "delete"
  /\ Len(chan) = 2
  /\ Cardinality({Unwrap(handler.room_id), chan[1].id, chan[2].id}) = 3
  /\ DOMAIN rooms = {Unwrap(handler.room_id), chan[1].id, chan[2].id}

\* C18: the deletion handler does not hold the Mutex while it waits in
\* recv(): it takes the Mutex only with a received RoomId in hand, holds it
\* for the one delete_room call and has released it when it receives again.
\* A timer task is never a holder, and neither its sleep nor its send waits
\* for the Mutex or changes it.
C18_NoLockWhileSuspended ==
  /\ [](/\ handler.pc \in {"recv", "lock"} => registry_mutex # Handler
        /\ registry_mutex = Handler =>
             handler.pc = "delete" /\ handler.room_id # None
        /\ registry_mutex \in Tasks \cup {Handler, Unlocked}
        /\ \A i \in DOMAIN timers :
             /\ timers[i].pc = "sleeping" => ENABLED Elapse(i)
             /\ timers[i].pc = "sending" /\ Len(chan) < ChannelCapacity
                  => ENABLED Send(i))
  /\ [][/\ registry_mutex # Handler /\ registry_mutex' = Handler =>
             /\ registry_mutex = Unlocked
             /\ handler.pc = "lock" /\ handler.room_id # None
             /\ handler'.room_id = handler.room_id
             /\ UNCHANGED <<rooms, chan>>
        /\ registry_mutex = Handler /\ handler' # handler =>
             /\ rooms' = delete_room(rooms, Unwrap(handler.room_id))
             /\ registry_mutex' = Unlocked
             /\ handler'.pc = "recv"
             /\ chan' = chan
        /\ Len(chan') < Len(chan) =>
             registry_mutex # Handler /\ registry_mutex' = registry_mutex
        /\ (\E i \in DOMAIN timers : timers'[i].pc # timers[i].pc
              /\ timers'[i].pc \in {"sending", "done"})
             => registry_mutex' = registry_mutex]_vars

\* The handler has processed one request and waits in recv() on an empty
\* channel while a request task holds the Mutex and another timer sleeps.
C18_Witness ==
  /\ handler.pc = "recv"
  /\ chan = <<>>
  /\ registry_mutex \in Tasks
  /\ \E i \in DOMAIN timers :
       /\ timers[i].pc = "done"
       /\ timers[i].id \notin DOMAIN rooms
  /\ \E j \in DOMAIN timers : timers[j].pc = "sleeping"

\* Timer task i has fired and its request has not been processed yet: it is
\* in its send, in the channel, or with the handler.
Pending(i) ==
  TimerPc(i) = "sending" \/ InChannel(i) # {} \/ WithHandler(i)

\* A step that applies delete_room to id: a direct call by the task that
\* holds the Mutex, or the handler's call for a request that carries id.
DeleteRoomStep(id) ==
  \/ \E t \in Tasks : Call(t, "delete_room") /\ task'[t].res.arg = id
  \/ /\ handler.pc = "delete"
     /\ handler.room_id = Some(id)
     /\ handler'.pc = "recv"

C20_OwnTimerOnly ==
  [][\A id \in DOMAIN rooms :
       /\ handler.pc = "delete"
       /\ handler.room_id = Some(id)
       /\ id \notin DOMAIN rooms'
       => timers[Unwrap(handler.from)].room = rooms[id].inst]_vars

\* The holder of the Mutex can take a step: a request task its registry call
\* or its return, the handler its delete_room.
HolderCanStep ==
  \/ \E t \in Tasks :
       registry_mutex = t /\ ENABLED (GetRoomForId(t) \/ Return(t))
  \/ registry_mutex = Handler /\ ENABLED HandlerDelete

\* C21: there is no reachable deadlock. The holder of the Mutex never waits
\* on the channel: it is a request task in its registry call or the handler
\* in its delete_room, and it can always take its next step; a free Mutex
\* can be taken by a waiting handler. So whenever a request is in the
\* channel or with the handler, some step of the handler or of the holder is
\* possible; under fair scheduling a full channel gets a free slot and a
\* received request is processed, and a timer suspended on its send can
\* complete it as soon as a slot is free.
C21_NoDeadlock ==
  /\ [](/\ registry_mutex # Unlocked => HolderCanStep
        /\ registry_mutex = Handler => handler.pc = "delete"
        /\ \A t \in Tasks : registry_mutex = t => task[t].pc \in {"locked", "done"}
        /\ handler.pc = "lock" => ENABLED HandlerLock \/ HolderCanStep
        /\ chan # <<>> => ENABLED Recv \/ ENABLED HandlerLock \/ HolderCanStep
        /\ \A i \in DOMAIN timers :
             timers[i].pc = "sending" =>
               /\ Len(chan) < ChannelCapacity => ENABLED Send(i)
               /\ ENABLED Send(i) \/ ENABLED Recv \/ ENABLED HandlerLock
                    \/ HolderCanStep)
  /\ (Len(chan) = ChannelCapacity) ~> (Len(chan) < ChannelCapacity)
  /\ (handler.pc = "lock") ~> (handler.pc = "recv")

\* The channel is full, the handler has a request in hand and waits for the
\* Mutex, which a request task holds.
C21_Witness ==
  /\ Len(chan) = ChannelCapacity
  /\ handler.pc = "lock"
  /\ \E t \in Tasks : registry_mutex = t /\ task[t].pc = "locked"

TypeOK ==
  /\ DOMAIN rooms \subseteq RoomIds
  /\ Len(timers) <= MaxTimers
  /\ Len(chan) <= ChannelCapacity
  /\ registry_mutex \in Tasks \cup {Handler, Unlocked}
====
